---- MODULE Spec2Model ----
(***************************************************************************)
(* The splitter program: send_to_all (programs/solana-pyusd-splitter/src/  *)
(* lib.rs) pays `amount` tokens from the `from` account to every account   *)
(* of ctx.remaining_accounts, one checked transfer per account, after      *)
(* deserializing the account's data as a TokenAccount.                     *)
(*                                                                         *)
(* The program runs as one instruction of one transaction: the host keeps  *)
(* the committed balances (ledger) apart from the balances the running     *)
(* instruction works on (accounts), commits the latter when the            *)
(* instruction returns Ok and discards them when it returns an error.      *)
(***************************************************************************)
EXTENDS Integers, Sequences, FiniteSets, TLC

\* ------------------------------------------------------------------ bounds

\* Longest remaining_accounts list an invocation is given.
MaxRecipients == 3

\* Largest `amount` argument.
MaxAmount == 2

\* Tokens the `from` account holds before the first invocation.
InitBalance == 4

\* ------------------------------------------------------- the accounts' data

\* Every account an invocation may name in remaining_accounts. "src" is the
\* account the invocations pass as `from`: nothing keeps a caller from listing
\* it among the recipients too.
Accounts == {"src", "r1", "r2", "oth", "junk"}

Mints == {"mintA", "mintB"}

Signers == {"alice", "mallory"}

\* The bytes of an account, as what they hold: a token account record
\* (mint, owner) or bytes that are no token account.
AccountData(a) ==
    CASE a = "src"  -> [kind |-> "token", mint |-> "mintA", owner |-> "alice"]
      [] a = "r1"   -> [kind |-> "token", mint |-> "mintA", owner |-> "bob"]
      [] a = "r2"   -> [kind |-> "token", mint |-> "mintA", owner |-> "carol"]
      [] a = "oth"  -> [kind |-> "token", mint |-> "mintB", owner |-> "dave"]
      [] OTHER      -> [kind |-> "raw", mint |-> "none", owner |-> "none"]

\* Mint.decimals of a mint account.
MintDecimals(m) == IF m = "mintA" THEN 6 ELSE 9

\* TryDeserialize, changed: only token accounts of the mint the program is
\* named for are taken as valid.
TryDeserializeMintA(a) ==
    AccountData(a).kind = "token" /\ AccountData(a).mint = "mintA"

\* TokenAccount::try_deserialize on an account's bytes: Ok exactly for the
\* bytes of a token account. Neither the mint nor the owner is looked at.
TryDeserialize(a) == AccountData(a).kind = "token"

TokenAccounts == {a \in Accounts : AccountData(a).kind = "token"}

\* The lists of at most n accounts.
SeqsUpTo(n) == UNION {[1..k -> Accounts] : k \in 0..n}

\* --------------------------------------------------------------- the state

VARIABLES
    ledger,      \* committed balance of every token account
    accounts,    \* balances as the running instruction sees and changes them
    pre,         \* ledger when the current (or last) invocation began
    pc,          \* where send_to_all stands
    ctx,         \* the invocation's accounts and argument
    idx,         \* index of `recipient` in ctx.remaining_accounts
    borrowed,    \* accounts whose data the program holds borrowed
    cpis,        \* transfer_checked calls issued by this invocation, in order
    rstate,      \* per list index: Pending, Validated, Transferred, Rejected
    result,      \* what send_to_all returned: "none" while it runs
    again,       \* the invocation repeats the one before it, input for input
    pre0,        \* ledger when the invocation before this one began
    result0      \* what the invocation before this one returned

vars == <<ledger, accounts, pre, pc, ctx, idx, borrowed, cpis, rstate, result,
          again, pre0, result0>>

NoCtx == [from |-> "src", authority |-> "alice", mint |-> "mintA",
          amount |-> 0, remaining_accounts |-> <<>>]

Init ==
    /\ ledger = [a \in TokenAccounts |-> IF a = "src" THEN InitBalance ELSE 0]
    /\ accounts = ledger
    /\ pre = ledger
    /\ pc = "idle"
    /\ ctx = NoCtx
    /\ idx = 0
    /\ borrowed = {}
    /\ cpis = <<>>
    /\ rstate = <<>>
    /\ result = "none"
    /\ again = FALSE
    /\ pre0 = ledger
    /\ result0 = "none"

\* ------------------------------------------- the checked-transfer primitive

\* token_2022::transfer_checked as the token program decides it: "Ok" or the
\* reason it rejects the transfer. b is the balances, held the borrowed
\* accounts, t the TransferChecked accounts with amount and decimals.
TransferCheckedResult(b, held, t) ==
    CASE t.to \in held \/ t.from \in held          -> "AccountBorrowFailed"
      [] AccountData(t.to).kind # "token"          -> "InvalidAccountData"
      [] b[t.from] < t.amount                      -> "InsufficientFunds"
      [] AccountData(t.from).mint # AccountData(t.to).mint -> "MintMismatch"
      [] AccountData(t.from).mint # t.mint         -> "MintMismatch"
      [] t.decimals # MintDecimals(AccountData(t.from).mint)
                                                   -> "MintDecimalsMismatch"
      [] AccountData(t.from).owner # t.authority   -> "OwnerMismatch"
      [] OTHER                                     -> "Ok"

\* An accepted transfer moves t.amount from t.from to t.to.
ApplyTransfer(b, t) ==
    [b EXCEPT ![t.from] = @ - t.amount, ![t.to] = @ + t.amount]

\* ------------------------------------------------------------- send_to_all

\* Enter, changed: the program remembers the batch it has just paid and
\* answers Ok to its repetition without paying again.
EnterOnce(c) ==
    /\ ctx' = c
    /\ pre' = ledger
    /\ accounts' = ledger
    /\ borrowed' = {}
    /\ cpis' = <<>>
    /\ rstate' = [k \in 1..Len(c.remaining_accounts) |-> "Pending"]
    /\ IF Len(c.remaining_accounts) = 0 \/ (pc = "done" /\ result = "Ok")
          THEN pc' = "ok" /\ idx' = 0 /\ result' = "Ok"
          ELSE pc' = "borrow" /\ idx' = 1 /\ result' = "none"
    /\ UNCHANGED ledger

\* send_to_all is entered with the SendTokens accounts c.from, c.authority and
\* c.mint, the amount c.amount and the remaining accounts: its locals are set
\* and the loop starts at the first recipient; an empty list falls through
\* to Ok(()).
Enter(c) ==
    /\ ctx' = c
    /\ pre' = ledger
    /\ accounts' = ledger
    /\ borrowed' = {}
    /\ cpis' = <<>>
    /\ rstate' = [k \in 1..Len(c.remaining_accounts) |-> "Pending"]
    /\ IF Len(c.remaining_accounts) = 0
          THEN pc' = "ok" /\ idx' = 0 /\ result' = "Ok"
          ELSE pc' = "borrow" /\ idx' = 1 /\ result' = "none"
    /\ UNCHANGED ledger

\* A transaction invokes send_to_all with inputs of the caller's choice.
Invoke ==
    /\ pc = "idle"
    /\ \E amount \in 0..MaxAmount, recipients \in SeqsUpTo(MaxRecipients),
          mint \in Mints, authority \in Signers :
          Enter([from |-> "src", authority |-> authority, mint |-> mint,
                 amount |-> amount, remaining_accounts |-> recipients])
    /\ again' = FALSE
    /\ pre0' = ledger
    /\ result0' = "none"

\* The caller sends the transaction it has just sent once more: the same
\* accounts, amount and remaining accounts.
Reinvoke ==
    /\ pc = "done"
    /\ ~again
    /\ Enter(ctx)
    /\ again' = TRUE
    /\ pre0' = pre
    /\ result0' = result

\* recipient, changed: the list is walked from its end.
recipientReversed ==
    ctx.remaining_accounts[Len(ctx.remaining_accounts) - idx + 1]

\* for recipient in ctx.remaining_accounts.iter(): the account of the current
\* iteration.
recipient == ctx.remaining_accounts[idx]

\* BorrowData, changed: the deserialization of the recipient is left out.
BorrowDataNoCheck ==
    /\ pc = "borrow"
    /\ borrowed' = borrowed
    /\ pc' = "cpi"
    /\ UNCHANGED <<ledger, accounts, pre, ctx, idx, cpis, rstate, result,
                   again, pre0, result0>>

\* let recipient_data = recipient.try_borrow_data()?;
\* Nothing holds the account's data mutably borrowed, so the borrow succeeds.
BorrowData ==
    /\ pc = "borrow"
    /\ borrowed' = borrowed \cup {recipient}
    /\ pc' = "deser"
    /\ UNCHANGED <<ledger, accounts, pre, ctx, idx, cpis, rstate, result,
                   again, pre0, result0>>

\* MapErr, changed: the ? is lost and the failure to deserialize ignored.
MapErrNoAbort(decoded) == [abort |-> FALSE, err |-> "none"]

\* .map_err(|_| error!(ErrorCode::InvalidTokenAccount))? on the result of
\* try_deserialize: whether send_to_all returns here, and the error it
\* returns.
MapErr(decoded) ==
    IF decoded THEN [abort |-> FALSE, err |-> "none"]
               ELSE [abort |-> TRUE, err |-> "InvalidTokenAccount"]

\* Deserialize, changed: a recipient that does not deserialize is skipped and
\* the loop goes on with the next one.
DeserializeSkip ==
    /\ pc = "deser"
    /\ IF TryDeserialize(recipient)
          THEN /\ pc' = "drop"
               /\ rstate' = [rstate EXCEPT ![idx] = "Validated"]
               /\ borrowed' = borrowed
               /\ UNCHANGED <<idx, result>>
          ELSE /\ rstate' = [rstate EXCEPT ![idx] = "Rejected"]
               /\ borrowed' = {}
               /\ IF idx < Len(ctx.remaining_accounts)
                     THEN pc' = "borrow" /\ result' = result /\ idx' = idx + 1
                     ELSE pc' = "ok" /\ result' = "Ok" /\ idx' = idx
    /\ UNCHANGED <<ledger, accounts, pre, ctx, cpis, again, pre0, result0>>

\* TokenAccount::try_deserialize(&mut slice_ref).map_err(..)?
\* The recipient is Validated when its data deserializes and Rejected when
\* not. An early return drops recipient_data with the function's other
\* locals.
Deserialize ==
    /\ pc = "deser"
    /\ LET decoded == TryDeserialize(recipient)
           r == MapErr(decoded)
       IN  /\ rstate' = [rstate EXCEPT
                            ![idx] = IF decoded THEN "Validated" ELSE "Rejected"]
           /\ IF r.abort
                 THEN pc' = "err" /\ result' = r.err /\ borrowed' = {}
                 ELSE pc' = "drop" /\ result' = result /\ borrowed' = borrowed
    /\ UNCHANGED <<ledger, accounts, pre, ctx, idx, cpis, again, pre0, result0>>

\* DropBorrow, changed: recipient_data is not dropped and lives to the end of
\* the iteration.
DropBorrowForgotten ==
    /\ pc = "drop"
    /\ borrowed' = borrowed
    /\ pc' = "cpi"
    /\ UNCHANGED <<ledger, accounts, pre, ctx, idx, cpis, rstate, result,
                   again, pre0, result0>>

\* drop(recipient_data);
DropBorrow ==
    /\ pc = "drop"
    /\ borrowed' = borrowed \ {recipient}
    /\ pc' = "cpi"
    /\ UNCHANGED <<ledger, accounts, pre, ctx, idx, cpis, rstate, result,
                   again, pre0, result0>>

\* TransferIntent, changed: the total of the batch is passed as the amount.
TransferIntentTotal(c, to) ==
    [from |-> c.from, to |-> to, authority |-> c.authority,
     mint |-> c.mint, amount |-> c.amount * Len(c.remaining_accounts),
     decimals |-> MintDecimals(c.mint)]

\* TransferIntent, changed: every transfer goes to the first recipient.
TransferIntentFirst(c, to) ==
    [from |-> c.from, to |-> c.remaining_accounts[1], authority |-> c.authority,
     mint |-> c.mint, amount |-> c.amount,
     decimals |-> MintDecimals(c.mint)]

\* TransferIntent, changed: a recipient this invocation has paid already is
\* sent nothing more.
TransferIntentOnce(c, to) ==
    [from |-> c.from, to |-> to, authority |-> c.authority,
     mint |-> c.mint,
     amount |-> IF \E k \in 1..Len(cpis) :
                      cpis[k].intent.to = to /\ cpis[k].res = "Ok"
                   THEN 0 ELSE c.amount,
     decimals |-> MintDecimals(c.mint)]

\* The TransferChecked accounts of the call for the recipient to, with the
\* amount and the decimals handed to transfer_checked: from, authority and
\* mint are the invocation's, the decimals are those the mint account holds.
TransferIntent(c, to) ==
    [from |-> c.from, to |-> to, authority |-> c.authority,
     mint |-> c.mint, amount |-> c.amount,
     decimals |-> MintDecimals(c.mint)]

\* Propagate, changed: the result of transfer_checked is dropped.
PropagateSwallow(res) == [abort |-> FALSE, err |-> "none"]

\* Propagate, changed: every failure is reported as the program's own error.
PropagateAsInvalid(res) ==
    IF res = "Ok" THEN [abort |-> FALSE, err |-> "none"]
                  ELSE [abort |-> TRUE, err |-> "InvalidTokenAccount"]

\* The ? on the result of token_2022::transfer_checked: whether send_to_all
\* returns here, and the error it returns.
Propagate(res) ==
    IF res = "Ok" THEN [abort |-> FALSE, err |-> "none"]
                  ELSE [abort |-> TRUE, err |-> res]

\* TransferCpi, changed: a rejected transfer is tried again.
TransferCpiRetry ==
    /\ pc = "cpi"
    /\ LET t   == TransferIntent(ctx, recipient)
           res == TransferCheckedResult(accounts, borrowed, t)
       IN  /\ cpis' = Append(cpis, [intent |-> t, res |-> res, at |-> idx])
           /\ accounts' = IF res = "Ok" THEN ApplyTransfer(accounts, t)
                                        ELSE accounts
           /\ rstate' = IF res = "Ok"
                           THEN [rstate EXCEPT ![idx] = "Transferred"]
                           ELSE rstate
           /\ IF res # "Ok"
                 THEN IF Len(cpis) < 2 * Len(ctx.remaining_accounts)
                         THEN pc' = "borrow" /\ result' = result /\ idx' = idx
                         ELSE pc' = "err" /\ result' = res /\ idx' = idx
                 ELSE IF idx < Len(ctx.remaining_accounts)
                         THEN pc' = "borrow" /\ result' = result
                              /\ idx' = idx + 1
                         ELSE pc' = "ok" /\ result' = "Ok" /\ idx' = idx
    /\ UNCHANGED <<ledger, pre, ctx, borrowed, again, pre0, result0>>

\* token_2022::transfer_checked(cpi_ctx, amount, ctx.accounts.mint.decimals)?;
\* then the next recipient, or Ok(()) after the last.
TransferCpi ==
    /\ pc = "cpi"
    /\ LET t   == TransferIntent(ctx, recipient)
           res == TransferCheckedResult(accounts, borrowed, t)
           r   == Propagate(res)
       IN  /\ cpis' = Append(cpis, [intent |-> t, res |-> res, at |-> idx])
           /\ accounts' = IF res = "Ok" THEN ApplyTransfer(accounts, t)
                                        ELSE accounts
           /\ rstate' = IF res = "Ok"
                           THEN [rstate EXCEPT ![idx] = "Transferred"]
                           ELSE rstate
           /\ IF r.abort
                 THEN pc' = "err" /\ result' = r.err /\ idx' = idx
                 ELSE IF idx < Len(ctx.remaining_accounts)
                         THEN pc' = "borrow" /\ result' = result
                              /\ idx' = idx + 1
                         ELSE pc' = "ok" /\ result' = "Ok" /\ idx' = idx
    /\ UNCHANGED <<ledger, pre, ctx, borrowed, again, pre0, result0>>

\* ------------------------------------------------------------------ the host

\* The instruction returned Ok: the host commits what it did.
Commit ==
    /\ pc = "ok"
    /\ ledger' = accounts
    /\ pc' = "done"
    /\ UNCHANGED <<accounts, pre, ctx, idx, borrowed, cpis, rstate, result,
                   again, pre0, result0>>

\* The instruction returned an error: the host discards what it did.
Rollback ==
    /\ pc = "err"
    /\ accounts' = ledger
    /\ pc' = "done"
    /\ UNCHANGED <<ledger, pre, ctx, idx, borrowed, cpis, rstate, result,
                   again, pre0, result0>>

\* The transaction is over: the next one starts from the committed ledger
\* and nothing else.
EndTransaction ==
    /\ pc = "done"
    /\ pc' = "idle"
    /\ ctx' = NoCtx
    /\ idx' = 0
    /\ cpis' = <<>>
    /\ rstate' = <<>>
    /\ result' = "none"
    /\ pre' = ledger
    /\ again' = FALSE
    /\ pre0' = ledger
    /\ result0' = "none"
    /\ UNCHANGED <<ledger, accounts, borrowed>>

Next ==
    \/ Invoke
    \/ Reinvoke
    \/ BorrowData
    \/ Deserialize
    \/ DropBorrow
    \/ TransferCpi
    \/ Commit
    \/ Rollback
    \/ EndTransaction

Spec == Init /\ [][Next]_vars

\* ------------------------------------------------- send_to_all as a function

\* The loop of send_to_all from the k-th recipient on, over the balances b:
\* the balances it leaves and what it returns.
RECURSIVE Loop(_, _, _)
Loop(b, c, k) ==
    IF k > Len(c.remaining_accounts)
       THEN [accounts |-> b, result |-> "Ok"]
       ELSE LET to == c.remaining_accounts[k]
                d  == MapErr(TryDeserialize(to))
                t   == TransferIntent(c, to)
                res == TransferCheckedResult(b, {}, t)
                r   == Propagate(res)
            IN  IF d.abort THEN [accounts |-> b, result |-> d.err]
                ELSE IF r.abort THEN [accounts |-> b, result |-> r.err]
                ELSE Loop(IF res = "Ok" THEN ApplyTransfer(b, t) ELSE b, c, k + 1)

\* One invocation with the inputs c from the committed balances b: what the
\* host commits, and what send_to_all returned.
Outcome(b, c) ==
    LET o == Loop(b, c, 1)
    IN  [ledger |-> IF o.result = "Ok" THEN o.accounts ELSE b,
         result |-> o.result]

\* ---------------------------------------------------------------- the claims

Recipients == ctx.remaining_accounts

N == Len(Recipients)

\* How often the account a stands in the recipient list.
Count(a) == Cardinality({k \in 1..N : Recipients[k] = a})

AllDecode == \A k \in 1..N : TryDeserialize(Recipients[k])

SourceListed == \E k \in 1..N : Recipients[k] = ctx.from

\* The balances b after every entry of the list was paid ctx.amount out of
\* the source.
PaidAll(b) ==
    [a \in TokenAccounts |->
        b[a] + ctx.amount * Count(a) - (IF a = ctx.from THEN ctx.amount * N ELSE 0)]

Perms(n) == {p \in [1..n -> 1..n] : \A i, j \in 1..n : p[i] = p[j] => i = j}

Permuted(c, p) ==
    [from |-> c.from, authority |-> c.authority, mint |-> c.mint,
     amount |-> c.amount,
     remaining_accounts |->
        [k \in 1..Len(c.remaining_accounts) |-> c.remaining_accounts[p[k]]]]

\* C1 (atomicity on validation failure): an invocation whose recipient list
\* holds a reference that does not deserialize, at whatever index, never
\* changes a committed balance: while it runs and after it the ledger is the
\* one it started from, and it does not return Ok.
C1_Atomicity ==
    (pc # "idle" /\ ~AllDecode) =>
        /\ ledger = pre
        /\ pc = "done" => (result # "Ok" /\ accounts = pre)

\* An invocation that paid a valid first recipient, met an undecodable one
\* later in the list and is over.
C1_Witness ==
    /\ pc = "done"
    /\ result = "InvalidTokenAccount"
    /\ ctx.amount > 0
    /\ idx > 1
    /\ Len(cpis) >= 1 /\ cpis[1].res = "Ok" /\ cpis[1].intent.to # ctx.from

\* C2 as claimed: every invocation whose references all deserialize succeeds,
\* takes amount * N from the source and adds amount to a recipient for each
\* of its entries.
C2_Original ==
    (pc = "done" /\ AllDecode) =>
        /\ result = "Ok"
        /\ ledger[ctx.from] = pre[ctx.from] - ctx.amount * N
        /\ \A k \in 1..N :
              ledger[Recipients[k]] =
                  pre[Recipients[k]] + ctx.amount * Count(Recipients[k])

\* C2 (conservation), amended: an invocation that returns Ok and whose list
\* does not name the source itself takes exactly amount * N from the source
\* and adds amount to a recipient for each of its entries; an invocation
\* whose references all deserialize never fails with InvalidTokenAccount,
\* and when a transfer of it is rejected no balance changes.
C2_Conservation ==
    /\ (pc = "done" /\ result = "Ok" /\ ~SourceListed) =>
          /\ AllDecode
          /\ ledger[ctx.from] = pre[ctx.from] - ctx.amount * N
          /\ \A a \in TokenAccounts \ {ctx.from} :
                ledger[a] = pre[a] + ctx.amount * Count(a)
    /\ (pc = "done" /\ AllDecode) =>
          /\ result # "InvalidTokenAccount"
          /\ result # "Ok" => ledger = pre

\* Three valid recipients paid a positive amount.
C2_Witness ==
    /\ pc = "done"
    /\ result = "Ok"
    /\ ~SourceListed
    /\ N = 3
    /\ ctx.amount > 0
    /\ ledger[ctx.from] < pre[ctx.from]

\* C3 (all or nothing): the committed ledger is the pre-invocation ledger
\* while send_to_all runs; after the invocation it is either the ledger with
\* every entry of the list paid, with result Ok, or the pre-invocation
\* ledger, with a failure.
C3_AllOrNothing ==
    /\ pc \notin {"idle", "done"} => ledger = pre
    /\ pc = "done" =>
          \/ result = "Ok" /\ ledger = PaidAll(pre)
          \/ result \notin {"Ok", "none"} /\ ledger = pre

\* A transfer rejected after an earlier one of the same invocation moved
\* tokens.
C3_Witness ==
    /\ pc = "done"
    /\ result \notin {"Ok", "InvalidTokenAccount"}
    /\ ctx.amount > 0
    /\ Len(cpis) >= 2
    /\ cpis[1].res = "Ok" /\ cpis[1].intent.to # ctx.from
    /\ ledger = pre

\* C4 (decimals enforcement): every transfer is issued with the decimals of
\* the mint account the invocation was given; a transfer whose decimals are
\* not those of the asset the source holds is rejected, send_to_all returns
\* that rejection, and no balance has changed.
C4_DecimalsEnforced ==
    \A k \in 1..Len(cpis) :
        LET t == cpis[k].intent
        IN  /\ t.decimals = MintDecimals(ctx.mint)
            /\ t.decimals # MintDecimals(AccountData(t.from).mint) =>
                  /\ cpis[k].res \notin {"Ok", "InvalidTokenAccount"}
                  /\ pc \in {"err", "done"}
                  /\ result = cpis[k].res
                  /\ accounts = pre
                  /\ ledger = pre

\* A transfer of a positive amount issued with decimals that are not the
\* asset's, and the invocation over.
C4_Witness ==
    /\ pc = "done"
    /\ ctx.amount > 0
    /\ Len(cpis) = 1
    /\ cpis[1].intent.decimals # MintDecimals(AccountData(ctx.from).mint)
    /\ result = cpis[1].res

\* C5 as claimed: after a successful invocation every account listed k >= 2
\* times holds k * amount more than before.
C5_Original ==
    (pc = "done" /\ result = "Ok") =>
        \A a \in TokenAccounts :
            Count(a) >= 2 => ledger[a] = pre[a] + Count(a) * ctx.amount

\* C5 (duplicate recipients), amended: after a successful invocation every
\* account other than the source that is listed k >= 2 times holds
\* k * amount more than before, was sent amount k times, and the source was
\* debited amount for every entry that is not the source itself.
C5_Duplicates ==
    (pc = "done" /\ result = "Ok") =>
        /\ \A a \in TokenAccounts \ {ctx.from} :
              Count(a) >= 2 =>
                  /\ ledger[a] = pre[a] + Count(a) * ctx.amount
                  /\ Cardinality({k \in 1..Len(cpis) :
                         /\ cpis[k].intent.to = a
                         /\ cpis[k].intent.amount = ctx.amount
                         /\ cpis[k].res = "Ok"}) = Count(a)
        /\ ledger[ctx.from] =
              pre[ctx.from] - ctx.amount * (N - Count(ctx.from))

\* A successful invocation that lists a recipient other than the source
\* twice or more.
C5_Witness ==
    /\ pc = "done"
    /\ result = "Ok"
    /\ ctx.amount > 0
    /\ \E a \in TokenAccounts \ {ctx.from} : Count(a) >= 2

SameOutcome(o1, o2) ==
    /\ o1.ledger = o2.ledger
    /\ (o1.result = "Ok") <=> (o2.result = "Ok")

\* C6 as claimed: an invocation whose references all deserialize ends with
\* the ledger and the success or failure that the invocation with any
\* permutation of its list, from the same ledger, ends with.
C6_Original ==
    (pc = "done" /\ AllDecode) =>
        \A p \in Perms(N) :
            SameOutcome(Outcome(pre, Permuted(ctx, p)),
                        [ledger |-> ledger, result |-> result])

\* C6 (order independence), amended: the same, for lists that do not name
\* the source itself.
C6_OrderIndependent ==
    (pc = "done" /\ AllDecode /\ ~SourceListed) =>
        \A p \in Perms(N) :
            SameOutcome(Outcome(pre, Permuted(ctx, p)),
                        [ledger |-> ledger, result |-> result])

\* A successful invocation with three recipients, not all the same.
C6_Witness ==
    /\ pc = "done"
    /\ AllDecode
    /\ ~SourceListed
    /\ N = 3
    /\ Recipients[1] # Recipients[2]
    /\ ctx.amount > 0
    /\ result = "Ok"

\* C7 (InvalidTokenAccount at once): once the recipient at index k, whose
\* data does not deserialize, has been looked at, send_to_all has returned
\* InvalidTokenAccount at k: every transfer issued was for an earlier index
\* and no later recipient has left Pending. InvalidTokenAccount is returned
\* for no other reason.
C7_InvalidStopsAtOnce ==
    /\ \A k \in 1..Len(rstate) :
          (~TryDeserialize(Recipients[k]) /\ rstate[k] # "Pending") =>
              /\ rstate[k] = "Rejected"
              /\ result = "InvalidTokenAccount"
              /\ pc \in {"err", "done"}
              /\ idx = k
              /\ \A j \in 1..Len(cpis) : cpis[j].at < k
              /\ \A j \in (k + 1)..Len(rstate) : rstate[j] = "Pending"
    /\ result = "InvalidTokenAccount" =>
          ~TryDeserialize(recipient) /\ rstate[idx] = "Rejected"

\* InvalidTokenAccount returned for a recipient in the middle of the list.
C7_Witness ==
    /\ pc = "done"
    /\ result = "InvalidTokenAccount"
    /\ idx > 1
    /\ idx < N

\* C8 (a rejected transfer stops the batch): a transfer_checked call that
\* was rejected is the last call of the invocation; send_to_all has returned
\* its reason as it is, the call was issued once for its index, the recipient
\* is not Transferred and no later recipient has left Pending.
C8_TransferFailureStops ==
    \A k \in 1..Len(cpis) :
        cpis[k].res # "Ok" =>
            /\ k = Len(cpis)
            /\ pc \in {"err", "done"}
            /\ result = cpis[k].res
            /\ result # "InvalidTokenAccount"
            /\ idx = cpis[k].at
            /\ rstate[idx] = "Validated"
            /\ \A j \in 1..(k - 1) : cpis[j].at # cpis[k].at
            /\ \A j \in (idx + 1)..Len(rstate) : rstate[j] = "Pending"

\* A transfer rejected in the middle of the list, after an accepted one.
C8_Witness ==
    /\ pc = "done"
    /\ Len(cpis) >= 2
    /\ cpis[Len(cpis)].res # "Ok"
    /\ cpis[Len(cpis)].at < N

\* C9 as claimed: the second of two successive successful invocations with
\* the same inputs leaves the source 2 * amount * N lower than before the
\* first, and every listed recipient credited twice.
C9_Original ==
    (pc = "done" /\ again /\ result0 = "Ok" /\ result = "Ok") =>
        /\ ledger[ctx.from] = pre0[ctx.from] - 2 * ctx.amount * N
        /\ \A k \in 1..N :
              ledger[Recipients[k]] =
                  pre0[Recipients[k]] + 2 * ctx.amount * Count(Recipients[k])

\* C9 (not idempotent, stateless), amended: the same for lists that do not
\* name the source itself; and what an invocation commits and returns is a
\* function of its inputs and of the ledger it starts from.
C9_NotIdempotent ==
    /\ (pc = "done" /\ again /\ result0 = "Ok" /\ result = "Ok"
           /\ ~SourceListed) =>
          /\ ledger[ctx.from] = pre0[ctx.from] - 2 * ctx.amount * N
          /\ \A a \in TokenAccounts \ {ctx.from} :
                ledger[a] = pre0[a] + 2 * ctx.amount * Count(a)
    /\ pc = "done" =>
          Outcome(pre, ctx) = [ledger |-> ledger, result |-> result]

\* The same batch of two or more recipients paid twice in a row.
C9_Witness ==
    /\ pc = "done"
    /\ again
    /\ result0 = "Ok"
    /\ result = "Ok"
    /\ ~SourceListed
    /\ N >= 2
    /\ ctx.amount > 0

\* C10 (validate before transfer): send_to_all stands at the transfer of a
\* recipient only when that recipient is Validated and its data
\* deserializes; a step that issues a transfer issues it for the current
\* recipient, which is Validated; a recipient becomes Transferred only from
\* Validated, and a Rejected recipient stays Rejected for the rest of the
\* invocation.
C10_ValidateBeforeTransfer ==
    [][/\ pc = "cpi" =>
             rstate[idx] = "Validated" /\ TryDeserialize(recipient)
       /\ Len(cpis') > Len(cpis) =>
             /\ rstate[idx] = "Validated"
             /\ TryDeserialize(recipient)
             /\ cpis'[Len(cpis')].intent.to = recipient
             /\ cpis'[Len(cpis')].at = idx
       /\ pc \notin {"idle", "done"} =>
             \A k \in 1..Len(rstate) :
                /\ (rstate'[k] = "Transferred" /\ rstate[k] # "Transferred") =>
                      rstate[k] = "Validated" /\ k = idx
                /\ rstate[k] = "Rejected" => rstate'[k] = "Rejected"
                /\ rstate[k] = "Pending" =>
                      rstate'[k] \in {"Pending", "Validated", "Rejected"}
      ]_vars

\* An invocation over with a Transferred recipient and a Rejected one.
C10_Witness ==
    /\ pc = "done"
    /\ \E k \in 1..Len(rstate) : rstate[k] = "Transferred"
    /\ \E k \in 1..Len(rstate) : rstate[k] = "Rejected"

\* The balances b after the first n entries of the list were paid ctx.amount
\* out of the source.
PaidPrefix(b, n) ==
    [a \in TokenAccounts |->
        b[a] + ctx.amount * Cardinality({k \in 1..n : Recipients[k] = a})
             - (IF a = ctx.from THEN ctx.amount * n ELSE 0)]

\* C11 as claimed: when send_to_all returns InvalidTokenAccount, the balances
\* the instruction works on are still those it started from.
C11_Original ==
    (pc = "err" /\ result = "InvalidTokenAccount") => accounts = pre

\* C11 (InvalidTokenAccount and mutation), amended: when send_to_all returns
\* InvalidTokenAccount for the recipient at index idx, no transfer was issued
\* for that index or a later one and no committed balance has changed, but
\* the idx - 1 recipients before it were each validated and paid: the working
\* balances hold those transfers until the host discards them. Only with the
\* undecodable reference first in the list has nothing moved at all.
C11_DetectedBeforeCommit ==
    (pc = "err" /\ result = "InvalidTokenAccount") =>
        /\ ledger = pre
        /\ Len(cpis) = idx - 1
        /\ \A k \in 1..Len(cpis) : cpis[k].at = k /\ cpis[k].res = "Ok"
        /\ accounts = PaidPrefix(pre, idx - 1)
        /\ idx = 1 => accounts = pre

\* InvalidTokenAccount returned with an earlier recipient's payment still in
\* the working balances.
C11_Witness ==
    /\ pc = "err"
    /\ result = "InvalidTokenAccount"
    /\ idx = 2
    /\ accounts # pre
    /\ ledger = pre

\* C12 (processing order): the transfers issued so far are, in order, those
\* for the first entries of the list: the k-th call is for index k and goes
\* to the k-th recipient. The loop stands at one index: every recipient
\* before it is Transferred, every recipient after it is still Pending (the
\* list is not validated up front), and the transfer of the current
\* recipient is issued only after its validation.
C12_ProcessingOrder ==
    pc \notin {"idle"} =>
        /\ \A k \in 1..Len(cpis) :
              cpis[k].at = k /\ cpis[k].intent.to = Recipients[k]
        /\ Len(cpis) \in {idx - 1, idx}
        /\ \A k \in 1..Len(rstate) :
              /\ k < idx => rstate[k] = "Transferred"
              /\ k > idx => rstate[k] = "Pending"
        /\ pc \in {"borrow", "deser"} =>
              Len(cpis) = idx - 1 /\ rstate[idx] = "Pending"
        /\ pc \in {"drop", "cpi"} =>
              Len(cpis) = idx - 1 /\ rstate[idx] = "Validated"

\* The second of three different recipients is about to be paid: the first
\* is paid, the third not yet looked at.
C12_Witness ==
    /\ pc = "cpi"
    /\ N = 3
    /\ idx = 2
    /\ Recipients[1] # Recipients[3]
    /\ Len(cpis) = 1 /\ cpis[1].res = "Ok"
    /\ rstate[3] = "Pending"

\* C13 (uniform transfer intents): every transfer of an invocation is issued
\* with the invocation's from, authority, mint and amount and with the
\* decimals of that mint, and goes to the recipient of the iteration that
\* issued it: two transfers of one invocation differ in nothing but the
\* destination.
C13_UniformIntents ==
    /\ \A k \in 1..Len(cpis) :
          LET t == cpis[k].intent
          IN  /\ t.from = ctx.from
              /\ t.authority = ctx.authority
              /\ t.mint = ctx.mint
              /\ t.amount = ctx.amount
              /\ t.decimals = MintDecimals(ctx.mint)
              /\ t.to = Recipients[cpis[k].at]
    /\ \A j, k \in 1..Len(cpis) :
          [cpis[j].intent EXCEPT !.to = "any"] =
              [cpis[k].intent EXCEPT !.to = "any"]

\* Three transfers of a positive amount issued, the second to the recipient
\* of the first and the third to another.
C13_Witness ==
    /\ Len(cpis) = 3
    /\ ctx.amount > 0
    /\ cpis[1].intent.to = cpis[2].intent.to
    /\ cpis[1].intent.to # cpis[3].intent.to

\* C14 (borrow release): the program holds the data of the current recipient
\* borrowed only between try_borrow_data and drop; when transfer_checked is
\* called, when an iteration begins and when send_to_all has returned, with
\* Ok or with an error, it holds no borrow, and no transfer is rejected
\* because an account is borrowed.
C14_BorrowReleased ==
    /\ pc \in {"deser", "drop"} => borrowed = {recipient}
    /\ pc \notin {"deser", "drop"} => borrowed = {}
    /\ \A k \in 1..Len(cpis) : cpis[k].res # "AccountBorrowFailed"

\* The transfer of a recipient that was borrowed, validated and paid earlier
\* in the same list is about to be issued.
C14_Witness ==
    /\ pc = "cpi"
    /\ idx = 3
    /\ recipient = Recipients[1]
    /\ cpis[1].res = "Ok"
    /\ borrowed = {}

RECURSIVE SumOver(_, _)
SumOver(b, S) ==
    IF S = {} THEN 0
    ELSE LET a == CHOOSE x \in S : TRUE IN b[a] + SumOver(b, S \ {a})

\* The token accounts of every mint.
Holders == [m \in Mints |-> {a \in TokenAccounts : AccountData(a).mint = m}]

\* The tokens of the mint m that the balances b hold in all.
Supply(b, m) == SumOver(b, Holders[m])

\* The balances b hold of every mint what the balances before the
\* invocation held of it.
SameSupply(b) == b = pre \/ \A m \in Mints : Supply(b, m) = Supply(pre, m)

\* The source and the recipients the loop has reached.
Reached == {ctx.from} \cup {Recipients[k] : k \in 1..idx}

\* C15 (frame and supply): at every point of an invocation, in the working
\* balances and in the committed ones, a balance that is not the one the
\* invocation started with is that of the source or of a recipient the loop
\* has reached; no balance record appears or disappears; and the balances of
\* each asset add up to what they added up to before the invocation, on
\* success and on failure.
C15_FrameAndSupply ==
    pc # "idle" =>
        /\ DOMAIN accounts = TokenAccounts /\ DOMAIN ledger = TokenAccounts
        /\ \A a \in TokenAccounts :
              (accounts[a] # pre[a] \/ ledger[a] # pre[a]) => a \in Reached
        /\ \A a \in TokenAccounts : accounts[a] >= 0 /\ ledger[a] >= 0
        /\ SameSupply(accounts)
        /\ SameSupply(ledger)

\* A successful invocation that paid one recipient and left the balance of
\* another, which already held tokens, alone.
C15_Witness ==
    /\ pc = "done"
    /\ result = "Ok"
    /\ ctx.amount > 0
    /\ ledger # pre
    /\ \E a \in TokenAccounts \ Reached : pre[a] > 0 /\ ledger[a] = pre[a]

Running == {"borrow", "deser", "drop", "cpi"}

\* The steps send_to_all has left at most: four for every recipient not yet
\* begun, and the rest of the current iteration.
Measure ==
    IF pc \notin Running THEN 0
    ELSE 4 * (N - idx) + (CASE pc = "borrow" -> 4 [] pc = "deser" -> 3
                             [] pc = "drop" -> 2 [] OTHER -> 1)

\* What holds of send_to_all's position in every state.
C16_Bounded ==
    /\ pc \in Running =>
          ENABLED (BorrowData \/ Deserialize \/ DropBorrow \/ TransferCpi)
    /\ pc \in Running => (idx \in 1..N /\ result = "none")
    /\ pc \in {"ok", "err", "done"} =>
          /\ result # "none"
          /\ pc = "ok" => result = "Ok"
          /\ pc = "err" => result # "Ok"
    /\ pc # "idle" =>
          /\ Len(cpis) <= N
          /\ Cardinality({k \in 1..Len(rstate) : rstate[k] # "Pending"}) <= N
          /\ \A j, k \in 1..Len(cpis) : j < k => cpis[j].at < cpis[k].at
    /\ (pc # "idle" /\ N = 0) =>
          /\ pc \in {"ok", "done"}
          /\ result = "Ok"
          /\ cpis = <<>>
          /\ accounts = pre /\ ledger = pre

\* What holds of every step send_to_all takes.
C16_Progress ==
    pc \in Running =>
        /\ Measure' < Measure
        /\ idx' \in {idx, idx + 1}
        /\ pc' \in Running \cup {"ok", "err"}
        /\ Len(cpis') \in {Len(cpis), Len(cpis) + 1}
        /\ \A k \in 1..Len(rstate) :
              rstate[k] # "Pending" => rstate'[k] # "Pending"

\* C16 (termination): while send_to_all runs it can take a step, and every
\* step it takes brings it nearer to its return: the steps left go down, the
\* index never goes back, no index is validated or paid twice, so that it
\* returns Ok or an error after at most N validations and N transfers. With
\* an empty list it returns Ok at once, with no transfer and no balance
\* changed.
C16_Termination == []C16_Bounded /\ [][C16_Progress]_vars

\* A list of three recipients worked through to the end: three validations,
\* three transfers, Ok.
C16_Witness ==
    /\ pc = "ok"
    /\ N = 3
    /\ Len(cpis) = 3
    /\ \A k \in 1..3 : rstate[k] = "Transferred"
    /\ result = "Ok"

\* C17 (validation checks decodability only): a recipient is Rejected, and
\* send_to_all returns InvalidTokenAccount, exactly when the recipient's
\* bytes are not those of a token account. A recipient whose bytes are a
\* token account of another mint, or of whatever owner, is Validated and its
\* transfer is issued; when that transfer is rejected, send_to_all returns
\* the rejection, never InvalidTokenAccount.
C17_DecodabilityOnly ==
    /\ \A k \in 1..Len(rstate) :
          /\ rstate[k] = "Rejected" <=>
                (AccountData(Recipients[k]).kind # "token"
                    /\ rstate[k] # "Pending")
          /\ (AccountData(Recipients[k]).kind = "token"
                /\ rstate[k] # "Pending") =>
                /\ rstate[k] \in {"Validated", "Transferred"}
                /\ (k < idx \/ pc \in {"ok", "err", "done"}) =>
                      \E j \in 1..Len(cpis) : cpis[j].at = k
    /\ result = "InvalidTokenAccount" <=>
          (pc \in {"err", "done"} /\ idx >= 1
              /\ AccountData(recipient).kind # "token")
    /\ \A j \in 1..Len(cpis) :
          /\ AccountData(cpis[j].intent.to).kind = "token"
          /\ AccountData(cpis[j].intent.to).mint # AccountData(ctx.from).mint =>
                /\ cpis[j].res \notin {"Ok", "InvalidTokenAccount"}
                /\ result = cpis[j].res

\* A recipient that is a token account of another mint was validated, its
\* transfer was issued and rejected, and the invocation is over.
C17_Witness ==
    /\ pc = "done"
    /\ idx >= 2
    /\ AccountData(recipient).kind = "token"
    /\ AccountData(recipient).mint # AccountData(ctx.from).mint
    /\ AccountData(recipient).owner # ctx.authority
    /\ ctx.mint = AccountData(ctx.from).mint
    /\ rstate[idx] = "Validated"
    /\ cpis[Len(cpis)].at = idx
    /\ result = "MintMismatch"

====
